---- MODULE Spec2Model ----
(***************************************************************************)
(* Model of the advisory dashboard's core logic (src/app.py) together with *)
(* the list-based pandas stand-in it is tested against (src/pandas.py):    *)
(*   - load_ticker_map / detect_ticker  (ticker resolver)                  *)
(*   - get_price_data under st.cache_data (price series cache)             *)
(*   - extract_ticker_weight and the portfolio tab of main (risk figures)  *)
(*                                                                         *)
(* Python values are records [t, n, s]: t is the type tag, n the numeric   *)
(* value (ints and integer-valued floats), s the characters of a string.   *)
(* A string is a sequence of one-character strings.                        *)
(***************************************************************************)
EXTENDS Integers, Sequences, FiniteSets, TLC

VARIABLES
    csvFile,        \* the tickers.csv the process finds at start-up
    pc,             \* "import" before TICKER_MAP is built, "ready" after
    TICKER_MAP,     \* app.TICKER_MAP: sequence of [key, tkr] in dict order
    warnings,       \* st.warning calls made by load_ticker_map
    tickerCall,     \* the detect_ticker call: its text and, once made, its outcome
    streamlitInstalled, \* whether `import streamlit` succeeded (app.py:3-25)
    priceCache,     \* st.cache_data store of get_price_data: key -> value
    fetchCount,     \* yf.download calls performed, per (ticker, period)
    firstResult,    \* outcome of the first get_price_data call, per key
    priceCall,      \* last get_price_data call: key, upstream reply, outcome
    portfolio,      \* st.session_state.portfolio: sequence of [name, weight]
    tab,            \* what the last run of main wrote in the portfolio tab
    weightCall      \* last extract_ticker_weight call: ticker and outcome

vars == <<csvFile, pc, TICKER_MAP, warnings, tickerCall, streamlitInstalled,
          priceCache, fetchCount, firstResult, priceCall, portfolio, tab,
          weightCall>>

tickerVars == <<csvFile, pc, TICKER_MAP, warnings, tickerCall>>
priceVars == <<streamlitInstalled, priceCache, fetchCount, firstResult, priceCall>>
riskVars == <<portfolio, tab, weightCall>>

----------------------------------------------------------------------------
(* Python values *)

PyNone == [t |-> "none", n |-> 0, s |-> <<>>]
PyStr(str) == [t |-> "str", n |-> 0, s |-> str]
PyInt(i) == [t |-> "int", n |-> i, s |-> <<>>]
PyFloat(i) == [t |-> "float", n |-> i, s |-> <<>>]
PyNaN == [t |-> "nan", n |-> 0, s |-> <<>>]
PyFrame == [t |-> "frame", n |-> 0, s |-> <<>>]

\* outcome of a call: a returned value or a propagated exception
Return(v) == [kind |-> "return", val |-> v]
Raise(name) == [kind |-> "raise", val |-> [t |-> "exc", n |-> 0, s |-> <<name>>]]
NoCall == [kind |-> "nocall", val |-> PyNone]

\* truthiness of a value as `not text` sees it (None and "" are falsy)
Truthy(v) ==
    CASE v.t = "none" -> FALSE
      [] v.t = "str" -> v.s # <<>>
      [] v.t \in {"int", "float"} -> v.n # 0
      [] OTHER -> TRUE

----------------------------------------------------------------------------
(* Strings *)

\* str.lower on one character
LowerChar(c) ==
    CASE c = "A" -> "a"
      [] c = "B" -> "b"
      [] c = "L" -> "l"
      [] c = "P" -> "p"
      [] c = "S" -> "s"
      [] c = "T" -> "t"
      [] OTHER -> c

\* str.lower
Lower(str) == [i \in 1..Len(str) |-> LowerChar(str[i])]

\* `a in b` on strings: a occurs in b as a contiguous run (the empty string
\* occurs in every string)
IsSubstring(a, b) ==
    \E i \in 0..(Len(b) - Len(a)) : SubSeq(b, i + 1, i + Len(a)) = a

\* all strings over `chars` of length at most n
StringsUpTo(chars, n) == UNION {[1..k -> chars] : k \in 0..n}

----------------------------------------------------------------------------
(* Ticker resolver: app.py load_ticker_map, detect_ticker; pandas.read_csv *)

\* the built-in mapping of load_ticker_map; a Hangul syllable is one character,
\* written here by its romanised name ("ko_te" "ko_seul" "ko_ra" is the
\* company name mapped to TSLA, "ko_ae" "ko_peul" the one mapped to AAPL)
example_map ==
    << [key |-> <<"ko_te", "ko_seul", "ko_ra">>, tkr |-> PyStr(<<"T", "S", "L", "A">>)],
       [key |-> <<"ko_ae", "ko_peul">>, tkr |-> PyStr(<<"A", "A", "P", "L">>)] >>

\* position of key k in dict d (0 when absent)
DictIndex(d, k) ==
    IF \E i \in 1..Len(d) : d[i].key = k
    THEN CHOOSE i \in 1..Len(d) : d[i].key = k
    ELSE 0

\* d[k] = v on an insertion-ordered dict: a present key keeps its position
DictSet(d, k, v) ==
    IF DictIndex(d, k) = 0
    THEN Append(d, [key |-> k, tkr |-> v])
    ELSE [d EXCEPT ![DictIndex(d, k)].tkr = v]

\* csv.DictReader's view of one row: the cell under the i-th field name, None
\* (restval) when the row is shorter than the header
RowField(row, i) == IF i <= Len(row) THEN PyStr(row[i]) ELSE PyNone

\* position of a field name in the header (0 when absent)
FieldIndex(header, name) ==
    IF \E i \in 1..Len(header) : header[i] = name
    THEN CHOOSE i \in 1..Len(header) : header[i] = name
    ELSE 0

\* pandas.read_csv then df[name]: the column as a sequence of cells
Column(file, name) ==
    [r \in 1..Len(file.rows) |-> RowField(file.rows[r], FieldIndex(file.header, name))]

\* the dict comprehension {name.lower(): tkr for name, tkr in zip(...)}
RECURSIVE BuildMap(_, _, _)
BuildMap(names, tickers, acc) ==
    IF names = <<>> THEN acc
    ELSE BuildMap(Tail(names), Tail(tickers),
                  DictSet(acc, Lower(Head(names).s), Head(tickers)))

\* load_ticker_map: the mapping returned and the warning surfaced
load_ticker_map(file) ==
    CASE file.state = "missing" ->
            [map |-> example_map, warning |-> "not_found"]
      [] file.state = "ioerror" ->
            [map |-> example_map, warning |-> "load_error"]
      [] file.state = "empty" ->      \* rdr.fieldnames is None: TypeError
            [map |-> example_map, warning |-> "load_error"]
      [] OTHER ->
            IF FieldIndex(file.header, "name") = 0
               \/ FieldIndex(file.header, "ticker") = 0      \* KeyError
            THEN [map |-> example_map, warning |-> "load_error"]
            ELSE LET names == Column(file, "name")
                     tickers == Column(file, "ticker")
                 IN IF \E r \in 1..Len(names) : names[r].t = "none"
                    THEN \* None.lower(): AttributeError
                         [map |-> example_map, warning |-> "load_error"]
                    ELSE [map |-> BuildMap(names, tickers, <<>>),
                          warning |-> "none"]

\* the loop of detect_ticker from entry i on
RECURSIVE DetectFrom(_, _, _)
DetectFrom(map, text_low, i) ==
    IF i > Len(map) THEN Return(PyNone)
    ELSE IF IsSubstring(map[i].key, text_low) THEN Return(map[i].tkr)
    ELSE IF map[i].tkr.t # "str" THEN Raise("AttributeError")
    ELSE IF IsSubstring(Lower(map[i].tkr.s), text_low) THEN Return(map[i].tkr)
    ELSE DetectFrom(map, text_low, i + 1)

detect_ticker_no_lower(map, text) ==
    IF ~Truthy(text) THEN Return(PyNone)
    ELSE DetectFrom(map, text.s, 1)

detect_ticker(map, text) ==
    IF ~Truthy(text) THEN Return(PyNone)
    ELSE DetectFrom(map, Lower(text.s), 1)

----------------------------------------------------------------------------
(* Inputs of the ticker resolver *)

MaxCsvRows == 2
MaxQueryLen == 3

\* characters of generated queries: a letter in both cases and a caseless one
QueryChars == {"a", "A", "b"}

\* cells a row of tickers.csv may hold under `name` and under `ticker`
NameCells == {<<>>, <<"a">>, <<"A">>, <<"B">>, <<"a", "b">>}
TickerCells == {<<>>, <<"A">>, <<"b", "A">>}

FullRows == {<<nm, tk>> : nm \in NameCells, tk \in TickerCells}
\* a line with a single field (a blank line is no row at all)
ShortRows == {<<nm>> : nm \in NameCells \ {<<>>}}

RowSeqs(rows) == UNION {[1..k -> rows] : k \in 0..MaxCsvRows}

CsvFile(state, header, rows) == [state |-> state, header |-> header, rows |-> rows]

\* files whose every row has both fields
WellFormedCsv ==
    {CsvFile("file", <<"name", "ticker">>, rows) : rows \in RowSeqs(FullRows)}

\* every tickers.csv considered: absent, unreadable, empty, lacking a column,
\* or with rows some of which are short
CsvFiles ==
    {CsvFile("missing", <<>>, <<>>), CsvFile("ioerror", <<>>, <<>>),
     CsvFile("empty", <<>>, <<>>)}
    \cup {CsvFile("file", <<"name">>, rows) : rows \in RowSeqs(ShortRows)}
    \cup {CsvFile("file", <<"name", "ticker">>, rows) :
             rows \in RowSeqs(FullRows \cup ShortRows)}

\* the two queries of tests/test_detect_ticker.py
TestQueries ==
    {<<"ko_te", "ko_seul", "ko_ra", " ", "ko_jeon", "ko_mang", "ko_eun", "?">>,
     <<"A", "p", "p", "l", "e", " ", "o", "u", "t", "l", "o", "o", "k">>}

Texts ==
    {PyNone} \cup {PyStr(q) : q \in StringsUpTo(QueryChars, MaxQueryLen) \cup TestQueries}

----------------------------------------------------------------------------
(* Actions of the ticker resolver *)

\* module import: TICKER_MAP = load_ticker_map()   (app.py:59)
LoadTickerMap ==
    /\ pc = "import"
    /\ LET loaded == load_ticker_map(csvFile)
       IN /\ TICKER_MAP' = loaded.map
          /\ warnings' = IF loaded.warning = "none" THEN warnings
                         ELSE Append(warnings, loaded.warning)
    /\ pc' = "ready"
    /\ UNCHANGED <<csvFile, tickerCall, priceVars, riskVars>>

\* the call detect_ticker(text) on the text the behaviour started with
DetectTicker ==
    /\ pc = "ready"
    /\ tickerCall.result = NoCall
    /\ tickerCall' = [tickerCall EXCEPT
                         !.result = detect_ticker(TICKER_MAP, tickerCall.text)]
    /\ UNCHANGED <<csvFile, pc, TICKER_MAP, warnings, priceVars, riskVars>>

----------------------------------------------------------------------------
(* Price series: pandas.DataFrame/MultiIndex/Series, app.py get_price_data *)

\* A column label is a sequence of strings: <<"Close">> is the flat label
\* "Close", <<"AAPL", "Close">> the tuple ("AAPL", "Close"). A frame is
\* [multi, columns, data, index]: multi says the columns object is a
\* MultiIndex, data is the dict of column values in insertion order.
Frame(multi, columns, data, index) ==
    [multi |-> multi, columns |-> columns, data |-> data, index |-> index]

\* DataFrame.empty
FrameEmpty(f) == Len(f.index) = 0

\* MultiIndex.get_level_values(level), level counted from 0
get_level_values(columns, level) ==
    [i \in 1..Len(columns) |-> <<columns[i][level + 1]>>]

\* position of a label in a data dict (0 when absent)
DataIndex(data, label) ==
    IF \E i \in 1..Len(data) : data[i].label = label
    THEN CHOOSE i \in 1..Len(data) : data[i].label = label
    ELSE 0

\* data[label] = values on the insertion-ordered dict
DataSet(data, label, values) ==
    IF DataIndex(data, label) = 0
    THEN Append(data, [label |-> label, values |-> values])
    ELSE [data EXCEPT ![DataIndex(data, label)].values = values]

\* the loop of the columns setter: new_data[new] = self.data.pop(old)
RECURSIVE RenameData(_, _, _, _)
RenameData(data, old, new, acc) ==
    IF old = <<>> THEN acc
    ELSE RenameData(data, Tail(old), Tail(new),
                    DataSet(acc, Head(new), data[DataIndex(data, Head(old))].values))

\* DataFrame.columns = new_cols (new_cols is made a plain list)
SetColumns(f, new_cols) ==
    IF Len(new_cols) # Len(f.columns)
    THEN [f EXCEPT !.columns = new_cols, !.multi = FALSE]
    ELSE [f EXCEPT !.columns = new_cols, !.multi = FALSE,
                   !.data = RenameData(f.data, f.columns, new_cols, <<>>)]

\* a ratio num/den, or NaN
Ratio(num, den) == [nan |-> FALSE, num |-> num, den |-> den]
RatioNaN == [nan |-> TRUE, num |-> 0, den |-> 1]

\* Series.pct_change on a sequence of integers
pct_change(values) ==
    [i \in 1..Len(values) |->
        IF i = 1 THEN RatioNaN
        ELSE IF values[i - 1] = 0 THEN RatioNaN
        ELSE Ratio(values[i] - values[i - 1], values[i - 1])]

\* app.py:94-95, the flattening inside the try block
FlattenColumns(f) ==
    IF f.multi THEN SetColumns(f, get_level_values(f.columns, 0)) ELSE f

\* app.py:98-102, the statements that follow the try block
AfterTry(data) ==
    IF FrameEmpty(data) THEN [result |-> Return(PyNone), data |-> data]
    ELSE IF \E i \in 1..Len(data.columns) : data.columns[i] = <<"Close">>
    THEN LET close == data.data[DataIndex(data.data, <<"Close">>)].values
             withRet == [data EXCEPT
                            !.data = DataSet(data.data, <<"Return">>, pct_change(close)),
                            !.columns = Append(data.columns, <<"Return">>)]
         IN [result |-> Return(PyFrame), data |-> withRet]
    ELSE [result |-> Return(PyFrame), data |-> data]

\* the body of get_price_data on one reply of yf.download: its outcome and
\* the local `data` it ends with. The try statement of app.py:91-97 has no
\* except clause and its block ends in `return None`: a failure of the
\* download has no handler to stop at, and a download that succeeds is
\* flattened and then answered with None, so that AfterTry is never entered.
\* A returned frame is the value PyFrame, its contents being `data`.
get_price_data(reply) ==
    IF reply.raises
    THEN [result |-> Raise("DownloadError"), data |-> reply.frame]
    ELSE [result |-> Return(PyNone), data |-> FlattenColumns(reply.frame)]

\* st.cache_data (app.py:3-25, 73): Streamlit's decorator memoizes by the
\* call's arguments; the stand-in used when Streamlit is absent returns the
\* function unchanged
cache_data_memoizes(installed) == installed

----------------------------------------------------------------------------
(* Inputs of the price series cache *)

MaxFetches == 3

PriceTickers == {"TSLA", "AAPL"}
Periods == {"6mo", "1y"}
PriceKeys == PriceTickers \X Periods

\* closing prices of the rows a download may return (the opening price of a
\* row is its close less one, as in tests/test_get_price_data.py)
CloseRows == {<<>>, <<2, 3, 4>>, <<0, 3>>}

Opens(closes) == [i \in 1..Len(closes) |-> closes[i] - 1]

\* fields a download may carry
FieldLists == {<<"Open", "Close">>, <<"Open">>}

\* MultiIndex.from_product([[ticker], fields]) columns, as the test builds them
HierFrame(ticker, fields, closes) ==
    LET cols == [i \in 1..Len(fields) |-> <<ticker, fields[i]>>]
    IN Frame(TRUE, cols,
             [i \in 1..Len(fields) |->
                 [label |-> cols[i],
                  values |-> IF fields[i] = "Close" THEN closes ELSE Opens(closes)]],
             [i \in 1..Len(closes) |-> i])

FlatFrame(fields, closes) ==
    LET cols == [i \in 1..Len(fields) |-> <<fields[i]>>]
    IN Frame(FALSE, cols,
             [i \in 1..Len(fields) |->
                 [label |-> cols[i],
                  values |-> IF fields[i] = "Close" THEN closes ELSE Opens(closes)]],
             [i \in 1..Len(closes) |-> i])

NoFrame == Frame(FALSE, <<>>, <<>>, <<>>)

Replies(ticker) ==
    {[raises |-> TRUE, frame |-> NoFrame]}
    \cup {[raises |-> FALSE, frame |-> HierFrame(ticker, fl, cl)] :
             fl \in FieldLists, cl \in CloseRows}
    \cup {[raises |-> FALSE, frame |-> FlatFrame(fl, cl)] :
             fl \in FieldLists, cl \in CloseRows}

NoReply == [raises |-> FALSE, frame |-> NoFrame]

NoPriceCall ==
    [key |-> <<"", "">>, fetched |-> FALSE, reply |-> NoReply, data |-> NoFrame,
     result |-> NoCall]

RECURSIVE SumOver(_, _)
SumOver(f, keys) ==
    IF keys = {} THEN 0
    ELSE LET k == CHOOSE x \in keys : TRUE IN f[k] + SumOver(f, keys \ {k})

----------------------------------------------------------------------------
(* Action of the price series cache *)

\* a call get_price_data(ticker, period); reply is what yf.download does if
\* the call reaches it
GetPriceData(ticker, period, reply) ==
    LET key == <<ticker, period>>
        hit == cache_data_memoizes(streamlitInstalled) /\ priceCache[key].kind # "nocall"
        ran == get_price_data(reply)
        outcome == IF hit THEN priceCache[key] ELSE ran.result
    IN /\ hit \/ SumOver(fetchCount, PriceKeys) < MaxFetches
       /\ fetchCount' = IF hit THEN fetchCount
                        ELSE [fetchCount EXCEPT ![key] = @ + 1]
       /\ priceCache' = IF ~hit /\ cache_data_memoizes(streamlitInstalled)
                           /\ outcome.kind = "return"
                        THEN [priceCache EXCEPT ![key] = outcome]
                        ELSE priceCache
       /\ firstResult' = IF firstResult[key].kind = "nocall"
                         THEN [firstResult EXCEPT ![key] = outcome]
                         ELSE firstResult
       /\ priceCall' = [key |-> key, fetched |-> ~hit,
                        reply |-> IF hit THEN NoReply ELSE reply,
                        data |-> IF hit THEN NoFrame ELSE ran.data,
                        result |-> outcome]
       /\ UNCHANGED <<streamlitInstalled, tickerVars, riskVars>>

----------------------------------------------------------------------------
(* Portfolio: pandas.to_numeric, app.py extract_ticker_weight, main tab 6 *)

\* The portfolio frame is [columns, rows]: columns is the set of column names
\* it has, rows the sequence of [name, weight] cells. NameCol is the holding
\* column and WeightCol the percentage column of app.py:180.
NameCol == "jongmok"
WeightCol == "bijung_pct"
BothCols == {NameCol, WeightCol}

HighWeight == 30       \* the threshold of app.py:303
PercentBase == 100     \* the divisor of app.py:291

DigitChars == {"0", "1", "2", "3", "4", "5", "6", "7", "8", "9"}

DigitValue(c) ==
    CASE c = "0" -> 0 [] c = "1" -> 1 [] c = "2" -> 2 [] c = "3" -> 3
      [] c = "4" -> 4 [] c = "5" -> 5 [] c = "6" -> 6 [] c = "7" -> 7
      [] c = "8" -> 8 [] c = "9" -> 9

\* float() strips surrounding white space
RECURSIVE StripLeft(_)
StripLeft(str) ==
    IF str # <<>> /\ Head(str) = " " THEN StripLeft(Tail(str)) ELSE str

RECURSIVE StripRight(_)
StripRight(str) ==
    IF str # <<>> /\ str[Len(str)] = " "
    THEN StripRight(SubSeq(str, 1, Len(str) - 1))
    ELSE str

\* value of a run of decimal digits
RECURSIVE DigitsValue(_, _)
DigitsValue(str, acc) ==
    IF str = <<>> THEN acc
    ELSE DigitsValue(Tail(str), 10 * acc + DigitValue(Head(str)))

\* float(str) for strings of digits, signs, spaces and the letters a-c:
\* optional white space, an optional sign, one or more digits, optional white
\* space; anything else is a ValueError
ParseFloat(str) ==
    LET body == StripRight(StripLeft(str))
        signed == body # <<>> /\ Head(body) \in {"-", "+"}
        digits == IF signed THEN Tail(body) ELSE body
    IN IF digits # <<>> /\ \A i \in 1..Len(digits) : digits[i] \in DigitChars
       THEN Return(PyFloat(IF signed /\ Head(body) = "-"
                           THEN 0 - DigitsValue(digits, 0)
                           ELSE DigitsValue(digits, 0)))
       ELSE Raise("ValueError")

\* float(v)
ToFloat(v) ==
    CASE v.t \in {"int", "float"} -> Return(PyFloat(v.n))
      [] v.t = "nan" -> Return(PyNaN)
      [] v.t = "str" -> ParseFloat(v.s)
      [] OTHER -> Raise("TypeError")

to_numeric_raise(v) == ToFloat(v)

\* pandas.to_numeric(v, errors="coerce") on a scalar
to_numeric(v) ==
    IF ToFloat(v).kind = "raise" THEN Return(PyNaN) ELSE ToFloat(v)

\* pd.isna on a scalar
isna(v) == v.t \in {"nan", "none"}

\* position of the first row holding `ticker` (0 when there is none)
FirstRow(rows, ticker) ==
    IF \E i \in 1..Len(rows) : rows[i].name = ticker
    THEN CHOOSE i \in 1..Len(rows) :
            rows[i].name = ticker /\ \A j \in 1..(i - 1) : rows[j].name # ticker
    ELSE 0

\* extract_ticker_weight: its outcome and whether it called st.warning
extract_ticker_weight(df, ticker) ==
    IF NameCol \notin df.columns                          \* KeyError
    THEN [result |-> Return(PyNone), warned |-> TRUE]
    ELSE IF FirstRow(df.rows, ticker) = 0
    THEN [result |-> Return(PyNone), warned |-> FALSE]
    ELSE IF WeightCol \notin df.columns                   \* KeyError
    THEN [result |-> Return(PyNone), warned |-> TRUE]
    ELSE [result |-> to_numeric(df.rows[FirstRow(df.rows, ticker)].weight),
          warned |-> FALSE]

\* Series.fillna(0) on one coerced weight
fillna0(v) == IF isna(v) THEN PyFloat(0) ELSE v

\* sum of the squares of the coerced, zero-filled weights, in percent squared
RECURSIVE SumSquares(_)
SumSquares(rows) ==
    IF rows = <<>> THEN 0
    ELSE LET w == fillna0(to_numeric(Head(rows).weight).val).n
         IN w * w + SumSquares(Tail(rows))

ConcentrationSq_no_percent(rows) ==
    [num |-> SumSquares(rows), den |-> 1]

\* app.py:288-293. risk = ((weights / 100) ** 2).sum() ** 0.5 is the
\* non-negative root of num/den: each weight is divided by PercentBase
\* before it is squared
ConcentrationSq(rows) ==
    [num |-> SumSquares(rows), den |-> PercentBase * PercentBase]

NotComputed == [num |-> 0 - 1, den |-> 1]

\* what main writes in the portfolio tab for the frame df (app.py:279-304):
\*   pie       the pie chart was drawn
\*   riskSq    the square of the risk figure written, NotComputed if none was
\*   msgs      the notices shown: "not_held" (st.info of line 297),
\*             "not_numeric" (line 300), "high" (line 304)
\*   reported  the rows a notice singles out as not convertible
\*   shown     the TSLA weight written at line 302 (None if not written)
PortfolioTab(df) ==
    IF df.rows = <<>>
    THEN [ran |-> TRUE, pie |-> FALSE, riskSq |-> NotComputed, msgs |-> {},
          reported |-> {}, shown |-> PyNone]
    ELSE LET tsla == extract_ticker_weight(df, "TSLA").result.val
             weight == IF isna(tsla) THEN PyFloat(0) ELSE tsla
         IN IF tsla.t = "none"
            THEN [ran |-> TRUE, pie |-> TRUE, riskSq |-> ConcentrationSq(df.rows),
                  msgs |-> {"not_held"}, reported |-> {}, shown |-> PyNone]
            ELSE [ran |-> TRUE, pie |-> TRUE, riskSq |-> ConcentrationSq(df.rows),
                  msgs |-> (IF isna(tsla) THEN {"not_numeric"} ELSE {})
                           \cup (IF weight.n > HighWeight THEN {"high"} ELSE {}),
                  reported |-> IF isna(tsla) THEN {FirstRow(df.rows, "TSLA")} ELSE {},
                  shown |-> weight]

NoTab == [ran |-> FALSE, pie |-> FALSE, riskSq |-> NotComputed, msgs |-> {},
          reported |-> {}, shown |-> PyNone]

----------------------------------------------------------------------------
(* Inputs of the portfolio *)

MaxRows == 2

Holdings == {"TSLA", "AAPL"}

\* cells the weight column may hold after editing: numbers, numeric-looking
\* strings, other strings, an empty cell
WeightCells ==
    {PyInt(0), PyInt(30), PyInt(31), PyInt(40), PyInt(50), PyInt(60), PyInt(100),
     PyStr(<<"2", "5">>), PyStr(<<" ", "5", "0">>), PyStr(<<"-", "5">>),
     PyStr(<<"a", "b", "c">>), PyStr(<<>>), PyNone}

Entries == {[name |-> h, weight |-> w] : h \in Holdings, w \in WeightCells}

\* the frame of app.py:180
InitialPortfolio ==
    [columns |-> BothCols,
     rows |-> << [name |-> "TSLA", weight |-> PyInt(60)],
                 [name |-> "AAPL", weight |-> PyInt(40)] >>]

RemoveAt(seq, i) == SubSeq(seq, 1, i - 1) \o SubSeq(seq, i + 1, Len(seq))

\* what st.data_editor(num_rows="dynamic") can hand back for the rows it was
\* given: the same rows, one row more, one row less, or one row rewritten
Edited(rows) ==
    {rows}
    \cup (IF Len(rows) < MaxRows THEN {Append(rows, e) : e \in Entries} ELSE {})
    \cup {RemoveAt(rows, i) : i \in 1..Len(rows)}
    \cup {[rows EXCEPT ![i] = e] : i \in 1..Len(rows), e \in Entries}

\* frames handed to extract_ticker_weight directly
Frames ==
    {[columns |-> BothCols, rows |-> r] :
        r \in UNION {[1..k -> Entries] : k \in 0..MaxRows}}
    \cup {[columns |-> c, rows |-> <<e>>] :
            c \in {{NameCol}, {WeightCol}}, e \in Entries}

NoWeightCall == [ticker |-> "", result |-> NoCall, warned |-> FALSE]

----------------------------------------------------------------------------
(* Actions of the portfolio *)

\* one run of main with the query box empty and no button pressed: ticker is
\* None, so tabs 0-5 call neither get_price_data nor touch the history, and
\* the session changes in the portfolio tab alone, where the editor hands back
\* the rows, they are stored and the tab is written
Main(rows) ==
    /\ portfolio' = [portfolio EXCEPT !.rows = rows]
    /\ tab' = PortfolioTab(portfolio')
    /\ UNCHANGED <<weightCall, tickerVars, priceVars>>

\* a direct call extract_ticker_weight(portfolio, ticker)
ExtractTickerWeight(ticker) ==
    /\ weightCall' = [ticker |-> ticker,
                      result |-> extract_ticker_weight(portfolio, ticker).result,
                      warned |-> extract_ticker_weight(portfolio, ticker).warned]
    /\ UNCHANGED <<portfolio, tab, tickerVars, priceVars>>

----------------------------------------------------------------------------
(* Specifications *)

TickerIdle ==
    /\ csvFile = CsvFile("missing", <<>>, <<>>)
    /\ pc = "ready"
    /\ TICKER_MAP = example_map
    /\ warnings = <<"not_found">>
    /\ tickerCall = [text |-> PyNone, result |-> NoCall]

PriceIdle ==
    /\ streamlitInstalled = FALSE
    /\ priceCache = [k \in PriceKeys |-> NoCall]
    /\ fetchCount = [k \in PriceKeys |-> 0]
    /\ firstResult = [k \in PriceKeys |-> NoCall]
    /\ priceCall = NoPriceCall

RiskIdle ==
    /\ portfolio = InitialPortfolio
    /\ tab = NoTab
    /\ weightCall = NoWeightCall

\* start-up on any tickers.csv, then queries
InitLoad ==
    /\ csvFile \in CsvFiles
    /\ pc = "import"
    /\ TICKER_MAP = <<>>
    /\ warnings = <<>>
    /\ \E text \in Texts : tickerCall = [text |-> text, result |-> NoCall]
    /\ PriceIdle /\ RiskIdle

NextLoad == LoadTickerMap \/ DetectTicker

SpecLoad == InitLoad /\ [][NextLoad]_vars

\* detect_ticker over the mappings a tickers.csv with complete rows gives
InitResolve ==
    /\ csvFile \in WellFormedCsv
    /\ pc = "ready"
    /\ TICKER_MAP = load_ticker_map(csvFile).map
    /\ warnings = <<>>
    /\ \E text \in Texts : tickerCall = [text |-> text, result |-> NoCall]
    /\ PriceIdle /\ RiskIdle

NextResolve == DetectTicker

SpecResolve == InitResolve /\ [][NextResolve]_vars

\* get_price_data calls in one process, with or without Streamlit
InitPrice ==
    /\ streamlitInstalled \in BOOLEAN
    /\ priceCache = [k \in PriceKeys |-> NoCall]
    /\ fetchCount = [k \in PriceKeys |-> 0]
    /\ firstResult = [k \in PriceKeys |-> NoCall]
    /\ priceCall = NoPriceCall
    /\ TickerIdle /\ RiskIdle

NextPrice ==
    \E t \in PriceTickers, p \in Periods : \E reply \in Replies(t) :
        GetPriceData(t, p, reply)

SpecPrice == InitPrice /\ [][NextPrice]_vars

\* extract_ticker_weight over the frames of Frames
InitWeight ==
    /\ portfolio \in Frames
    /\ tab = NoTab
    /\ weightCall = NoWeightCall
    /\ TickerIdle /\ PriceIdle

NextWeight == \E ticker \in Holdings : ExtractTickerWeight(ticker)

SpecWeight == InitWeight /\ [][NextWeight]_vars

\* the session: the portfolio of app.py:180, edited and redrawn
Init == TickerIdle /\ PriceIdle /\ RiskIdle

Next == \E rows \in Edited(portfolio.rows) : Main(rows)

Spec == Init /\ [][Next]_vars

----------------------------------------------------------------------------
(* Claims about the ticker resolver *)

\* entry i of TICKER_MAP matches the lower-cased query q: its lower-cased
\* alias or its lower-cased symbol occurs in q
EntryMatches(i, q) ==
    \/ IsSubstring(Lower(TICKER_MAP[i].key), q)
    \/ IsSubstring(Lower(TICKER_MAP[i].tkr.s), q)

\* C1: for every query and every TickerMap, detect_ticker returns the symbol
\* of the first entry, in table order, whose lower-cased alias or lower-cased
\* symbol is a substring of the lower-cased query, and None exactly when no
\* entry is such a match; an empty or absent query yields None and no failure.
C1_FirstMatchInTableOrder ==
    tickerCall.result # NoCall =>
        IF ~Truthy(tickerCall.text)
        THEN tickerCall.result = Return(PyNone)
        ELSE LET q == Lower(tickerCall.text.s)
                 hits == {i \in 1..Len(TICKER_MAP) : EntryMatches(i, q)}
             IN IF hits = {}
                THEN tickerCall.result = Return(PyNone)
                ELSE \E i \in hits :
                        /\ \A j \in hits : i <= j
                        /\ tickerCall.result = Return(TICKER_MAP[i].tkr)

\* C1 witness: a query with an upper-case letter is resolved by the symbol of
\* the second entry, the first entry not matching
C1_Witness ==
    /\ tickerCall.result.kind = "return"
    /\ tickerCall.text.t = "str"
    /\ tickerCall.text.s # Lower(tickerCall.text.s)
    /\ Len(TICKER_MAP) >= 2
    /\ ~EntryMatches(1, Lower(tickerCall.text.s))
    /\ ~IsSubstring(TICKER_MAP[2].key, Lower(tickerCall.text.s))
    /\ TICKER_MAP[2].tkr.s # <<>>
    /\ IsSubstring(Lower(TICKER_MAP[2].tkr.s), Lower(tickerCall.text.s))
    /\ tickerCall.result.val = TICKER_MAP[2].tkr

\* a configuration source that is missing, unreadable, empty, without one of
\* the two columns, or with a row that has not as many fields as the header
BadSource(file) ==
    \/ file.state # "file"
    \/ FieldIndex(file.header, "name") = 0
    \/ FieldIndex(file.header, "ticker") = 0
    \/ \E r \in 1..Len(file.rows) : Len(file.rows[r]) # Len(file.header)

\* C5: load_ticker_map never fails; on a missing source, malformed rows or an
\* I/O error it returns the built-in mapping and surfaces a warning; and on
\* every mapping it returns detect_ticker completes without raising.
C5_LoadFallsBackAndResolverNeverRaises ==
    pc = "ready" =>
        /\ BadSource(csvFile) => TICKER_MAP = example_map /\ warnings # <<>>
        /\ tickerCall.result.kind # "raise"

----------------------------------------------------------------------------
(* Claims about the price series cache *)

\* the reply carries hierarchical (ticker, field) columns with a Close field
\* and at least one row
HierWithClose(reply, ticker) ==
    /\ ~reply.raises
    /\ reply.frame.multi
    /\ \E i \in 1..Len(reply.frame.columns) :
          reply.frame.columns[i] = <<ticker, "Close">>
    /\ Len(reply.frame.index) >= 1

HasColumn(f, name) == \E i \in 1..Len(f.columns) : f.columns[i] = <<name>>

ColumnValues(f, name) == f.data[DataIndex(f.data, <<name>>)].values

\* C2: for a fetch result with hierarchical (ticker, field) columns that
\* include Close and with at least one row, get_price_data returns a frame
\* with flat columns holding Close and Return, Return as long as Close,
\* Return[0] undefined and Return[i] = (Close[i] - Close[i-1]) / Close[i-1].
C2_FlatCloseAndReturn ==
    (priceCall.fetched /\ HierWithClose(priceCall.reply, priceCall.key[1])) =>
        /\ priceCall.result = Return(PyFrame)
        /\ ~priceCall.data.multi
        /\ HasColumn(priceCall.data, "Close")
        /\ HasColumn(priceCall.data, "Return")
        /\ LET close == ColumnValues(priceCall.data, "Close")
               ret == ColumnValues(priceCall.data, "Return")
           IN /\ Len(ret) = Len(close)
              /\ ret[1].nan
              /\ \A i \in 2..Len(close) :
                    close[i - 1] # 0 =>
                        /\ ~ret[i].nan
                        /\ ret[i].num * close[i - 1]
                             = (close[i] - close[i - 1]) * ret[i].den

\* the reply has no closing-price field, flat or ticker-qualified
LacksClose(reply) ==
    \A i \in 1..Len(reply.frame.columns) :
        reply.frame.columns[i][Len(reply.frame.columns[i])] # "Close"

\* C3: get_price_data returns None when the fetch raises, when it has no
\* rows, and when it has no Close field; no failure reaches the caller and no
\* series is returned in any of the three cases.
C3_NoDataIsNone ==
    (priceCall.fetched
       /\ (\/ priceCall.reply.raises
           \/ FrameEmpty(priceCall.reply.frame)
           \/ LacksClose(priceCall.reply))) =>
        priceCall.result = Return(PyNone)

\* C4: over any sequence of calls the fetch is performed at most once per
\* (ticker, period); a call whose key was already requested fetches nothing
\* and returns what the first call returned.
C4_FetchOncePerKey ==
    /\ \A k \in PriceKeys : fetchCount[k] <= 1
    /\ priceCall.result # NoCall => priceCall.result = firstResult[priceCall.key]

----------------------------------------------------------------------------
(* Claims about the portfolio *)

\* the cells of WeightCells that are no number and do not read as one
NotNumericCells == {PyStr(<<"a", "b", "c">>), PyStr(<<>>), PyNone}

Coercible(cell) == cell \notin NotNumericCells

\* the number a coercible cell of WeightCells stands for
NumericValue(cell) ==
    CASE cell.t = "int" -> cell.n
      [] cell = PyStr(<<"2", "5">>) -> 25
      [] cell = PyStr(<<" ", "5", "0">>) -> 50
      [] cell = PyStr(<<"-", "5">>) -> 0 - 5

\* the weight cell of the first row that holds `ticker`
HeldWeight(rows, ticker) ==
    rows[CHOOSE i \in 1..Len(rows) :
            rows[i].name = ticker /\ \A j \in 1..(i - 1) : rows[j].name # ticker].weight

Held(rows, ticker) == \E i \in 1..Len(rows) : rows[i].name = ticker

\* C6: for every portfolio that contains the requested holding,
\* extract_ticker_weight returns the numeric value of its weight when the
\* weight is a number or a numeric-looking string ("25" gives 25) and NaN
\* when the weight cannot be coerced; it raises in neither case.
C6_WeightOrNaN ==
    (/\ weightCall.result # NoCall
     /\ portfolio.columns = BothCols
     /\ Held(portfolio.rows, weightCall.ticker)) =>
        LET cell == HeldWeight(portfolio.rows, weightCall.ticker)
        IN /\ weightCall.result.kind = "return"
           /\ IF Coercible(cell)
              THEN /\ weightCall.result.val.t = "float"
                   /\ weightCall.result.val.n = NumericValue(cell)
              ELSE weightCall.result.val = PyNaN

\* C6 witness: the weight of a held ticker whose cell is the string "abc"
\* was asked for and the answer was NaN, in a frame where another holding has
\* the string "25", which reads as a number
C6_Witness ==
    /\ weightCall.result = Return(PyNaN)
    /\ portfolio.columns = BothCols
    /\ Held(portfolio.rows, weightCall.ticker)
    /\ HeldWeight(portfolio.rows, weightCall.ticker) = PyStr(<<"a", "b", "c">>)
    /\ \E i \in 1..Len(portfolio.rows) : portfolio.rows[i].weight = PyStr(<<"2", "5">>)

\* C7: the check of the designated holding TSLA has three outcomes: absent
\* from the entries, the result is "not held" and no flag; present, it is
\* flagged exactly when its coerced weight is above 30; present with a weight
\* that cannot be coerced, the weight is taken as 0 and it is not flagged.
C7_ThreeOutcomes ==
    tab.ran =>
        IF ~Held(portfolio.rows, "TSLA")
        THEN "not_held" \in tab.msgs /\ "high" \notin tab.msgs
        ELSE LET cell == HeldWeight(portfolio.rows, "TSLA")
             IN /\ "not_held" \notin tab.msgs
                /\ IF Coercible(cell)
                   THEN ("high" \in tab.msgs) <=> (NumericValue(cell) > 30)
                   ELSE tab.shown = PyFloat(0) /\ "high" \notin tab.msgs

\* the sum of the squared weights, a weight that cannot be coerced counting 0
RECURSIVE SquaresOfCoercible(_)
SquaresOfCoercible(rows) ==
    IF rows = <<>> THEN 0
    ELSE (IF Coercible(Head(rows).weight)
          THEN NumericValue(Head(rows).weight) * NumericValue(Head(rows).weight)
          ELSE 0) + SquaresOfCoercible(Tail(rows))

\* C8: every entry whose weight cannot be coerced contributes zero to the
\* concentration index, the index is still computed from the other entries,
\* and that entry, whichever holding it is, is reported to the caller.
C8_NonCoercibleReported ==
    tab.ran =>
        \A i \in 1..Len(portfolio.rows) :
            ~Coercible(portfolio.rows[i].weight) =>
                /\ tab.riskSq # NotComputed
                /\ tab.riskSq.num = SquaresOfCoercible(portfolio.rows)
                /\ i \in tab.reported

\* C9: for an empty sequence of entries the risk computation produces a
\* concentration index of 0 and no per-holding flag, as a normal result that
\* is neither a failure nor left out.
C9_EmptyPortfolioIndexZero ==
    (tab.ran /\ portfolio.rows = <<>>) =>
        /\ tab.riskSq # NotComputed
        /\ tab.riskSq.num = 0
        /\ "high" \notin tab.msgs

RECURSIVE SumOfWeights(_)
SumOfWeights(rows) ==
    IF rows = <<>> THEN 0
    ELSE NumericValue(Head(rows).weight) + SumOfWeights(Tail(rows))

\* every weight is a number, or reads as one, between 0 and 100
PercentWeights(rows) ==
    \A i \in 1..Len(rows) :
        /\ Coercible(rows[i].weight)
        /\ NumericValue(rows[i].weight) >= 0
        /\ NumericValue(rows[i].weight) <= 100

\* what the claim says of an index whose square is sq = [num, den]: it lies
\* in [0, 1], a single holding of 100% gives 1, and N equal holdings that sum
\* to 100% give 1/sqrt(N)
IndexAsClaimed(rows, sq) ==
    /\ 0 <= sq.num /\ sq.num <= sq.den
    /\ (Len(rows) = 1 /\ NumericValue(rows[1].weight) = 100) => sq.num = sq.den
    /\ (/\ SumOfWeights(rows) = 100
        /\ \A i \in 1..Len(rows) :
              NumericValue(rows[i].weight) = NumericValue(rows[1].weight))
          => Len(rows) * sq.num = sq.den

\* C10 as stated: for every portfolio whose weights are percentages in
\* 0..100, not required to sum to 100, the concentration index main computes
\* lies in [0, 1]; a single 100% holding gives 1.0 and N equal holdings
\* summing to 100% give 1/sqrt(N).
C10_IndexInUnitInterval ==
    (tab.ran /\ tab.riskSq # NotComputed /\ PercentWeights(portfolio.rows)) =>
        IndexAsClaimed(portfolio.rows, tab.riskSq)

\* C10 amended: for every portfolio whose weights are percentages in 0..100
\* that sum to at most 100, the concentration index main computes lies in
\* [0, 1]; a single 100% holding gives 1.0 and N equal holdings summing to
\* 100% give 1/sqrt(N).
C10_IndexInUnitIntervalWhenSumAtMost100 ==
    (/\ tab.ran
     /\ tab.riskSq # NotComputed
     /\ PercentWeights(portfolio.rows)
     /\ SumOfWeights(portfolio.rows) <= 100) =>
        IndexAsClaimed(portfolio.rows, tab.riskSq)

\* C10 witness: two holdings of 50% each, one of them typed as " 50", were
\* drawn with an index whose square is one half
C10_Witness ==
    /\ tab.ran
    /\ Len(portfolio.rows) = 2
    /\ portfolio.rows[1].weight = PyInt(50)
    /\ portfolio.rows[2].weight = PyStr(<<" ", "5", "0">>)
    /\ 2 * tab.riskSq.num = tab.riskSq.den

\* the three outcomes of the TSLA check hold on every portfolio that has a
\* row: the empty portfolio is the only one on which they do not
C7_OnNonEmpty == portfolio.rows # <<>> => C7_ThreeOutcomes

====
